---- MODULE Spec2Model ----
(***************************************************************************)
(* Curious Explorer: the exploration session (ExplorerContext), its        *)
(* reducer, the tree helpers, the explore pipeline and the IndexedDB       *)
(* gateway, as a state machine.                                            *)
(*                                                                         *)
(* The provider's functions close over the `state` of the render in which  *)
(* they were created.  A call therefore reads the committed state at the   *)
(* moment of the call, and every continuation after an `await` keeps       *)
(* reading that same snapshot, while each dispatch runs the reducer on the *)
(* live state.  A pipeline record keeps the parts of the snapshot that the *)
(* continuation reads.                                                     *)
(*                                                                         *)
(* Strings are sequences of one-character strings, so that toLowerCase,    *)
(* includes and join are computed character by character.                  *)
(***************************************************************************)
EXTENDS Integers, Sequences, FiniteSets, TLC

\* ------------------------------------------------------------------ bounds

\* The number of analyses that succeed in the session, each naming a new Item.
MaxItems == 1
\* Number of asynchronous calls (explore pipelines, storage writes, deletions,
\* imports) that can be suspended at the same time.
MaxInFlight == 2

\* The user's queries (the text typed, or the name of the part clicked).
Queries == { <<"B">>, <<"c">> }
\* The part-name lists the analysis service returns.
PartNameLists == { <<<<"B">>, <<"c">>>> }

\* ----------------------------------------------------------------- strings

Lower(c) == IF c = "A" THEN "a" ELSE IF c = "B" THEN "b" ELSE IF c = "C" THEN "c" ELSE c

toLowerCase(s) == [i \in 1..Len(s) |-> Lower(s[i])]

\* s.includes(t): t occurs in s as a contiguous run ("" occurs everywhere).
includes(s, t) ==
  \E i \in 0..(Len(s) - Len(t)) : SubSeq(s, i + 1, i + Len(t)) = t

Space == <<" ">>
From == <<" ", "f", "r", "o", "m", " ">>

\* ------------------------------------------------------------------- items

NoId == 0

NoImages == [assembled |-> "", cutaway |-> "", exploded |-> ""]

\* `null` for currentItem, and the `undefined` of history[0] on an empty history.
NullItem ==
  [id |-> NoId, rootId |-> NoId, parentId |-> NoId, name |-> <<>>, depth |-> 0,
   timestamp |-> 0, images |-> NoImages, parts |-> <<>>, children |-> <<>>]

RECURSIVE size(_)
RECURSIVE sizeOfAll(_)
\* The number of Items of a tree, and of a list of trees.
size(item) == 1 + sizeOfAll(item.children)
sizeOfAll(items) ==
  IF Len(items) = 0 THEN 0 ELSE size(Head(items)) + sizeOfAll(Tail(items))

RECURSIVE findPathToNode(_, _)
RECURSIVE findPathInChildren(_, _, _)

\* The for-loop of findPathToNode over root.children, from index i on.
findPathInChildren(root, i, targetId) ==
  IF i > Len(root.children) THEN <<>>
  ELSE LET path == findPathToNode(root.children[i], targetId)
       IN  IF path # <<>> THEN <<root>> \o path
           ELSE findPathInChildren(root, i + 1, targetId)

\* A variant that looks at the root and at its own children only.
findPathToNodeShallow(root, targetId) ==
  IF root.id = targetId THEN <<root>>
  ELSE IF \E i \in 1..Len(root.children) : root.children[i].id = targetId
       THEN <<root, root.children[CHOOSE i \in 1..Len(root.children) :
                                    root.children[i].id = targetId]>>
       ELSE <<>>

\* The path root..target, or <<>> for the code's null.
findPathToNode(root, targetId) ==
  IF root.id = targetId THEN <<root>>
  ELSE findPathInChildren(root, 1, targetId)

RECURSIVE updateItemInTreeAtFront(_, _, _)
\* A variant that puts the new child first instead of last.
updateItemInTreeAtFront(root, targetId, newChild) ==
  IF root.id = targetId
  THEN [root EXCEPT !.children = <<newChild>> \o root.children]
  ELSE [root EXCEPT !.children =
          [i \in 1..Len(root.children) |->
             updateItemInTreeAtFront(root.children[i], targetId, newChild)]]

RECURSIVE updateItemInTreeAppending(_, _, _)
\* A variant that appends without looking for a child of the same id.
updateItemInTreeAppending(root, targetId, newChild) ==
  IF root.id = targetId
  THEN [root EXCEPT !.children = Append(root.children, newChild)]
  ELSE [root EXCEPT !.children =
          [i \in 1..Len(root.children) |->
             updateItemInTreeAppending(root.children[i], targetId, newChild)]]

RECURSIVE updateItemInTree(_, _, _)
\* A copy of root with newChild appended to the children of the target node.
updateItemInTree(root, targetId, newChild) ==
  IF root.id = targetId
  THEN LET existingChildren == root.children
           exists == \E i \in 1..Len(existingChildren) :
                       existingChildren[i].id = newChild.id
       IN  [root EXCEPT !.children =
              IF exists THEN existingChildren ELSE Append(existingChildren, newChild)]
  ELSE [root EXCEPT !.children =
          [i \in 1..Len(root.children) |->
             updateItemInTree(root.children[i], targetId, newChild)]]

\* ----------------------------------------------------------------- reducer

IdleStatus == [isGenerating |-> FALSE, stage |-> "idle", message |-> ""]

initialState ==
  [currentItem |-> NullItem, history |-> <<>>, collection |-> <<>>,
   status |-> IdleStatus, generationMode |-> "full",
   isConfigured |-> FALSE, isOffline |-> FALSE]

\* Array.findIndex, 1-based; 0 for the code's -1.
findIndex(seq, id) ==
  IF \E i \in 1..Len(seq) : seq[i].id = id
  THEN CHOOSE i \in 1..Len(seq) :
         seq[i].id = id /\ \A j \in 1..(i - 1) : seq[j].id # id
  ELSE 0

\* A variant that prepends every root, present or not.
upsertRootPrepending(collection, root) == <<root>> \o collection

\* A variant that keeps only the root just written.
upsertRootAlone(collection, root) == <<root>>

upsertRoot(collection, root) ==
  LET existingIdx == findIndex(collection, root.id)
  IN  IF existingIdx >= 1 THEN [collection EXCEPT ![existingIdx] = root]
      ELSE <<root>> \o collection

filterOut(collection, id) == SelectSeq(collection, LAMBDA item : item.id # id)

\* A variant that looks for the target in the roots of the Collection when the
\* active tree does not hold it.
reduceNavigateToAcrossRoots(state, targetId) ==
  IF Len(state.history) = 0 THEN state
  ELSE LET roots == <<state.history[1]>> \o state.collection
           found == {i \in 1..Len(roots) : findPathToNode(roots[i], targetId) # <<>>}
       IN  IF found = {} THEN state
           ELSE LET first == CHOOSE i \in found : \A j \in found : i <= j
                    newPath == findPathToNode(roots[first], targetId)
                IN  [state EXCEPT !.currentItem = newPath[Len(newPath)],
                                  !.history = newPath]

reduceNavigateTo(state, targetId) ==
  IF Len(state.history) = 0 THEN state
  ELSE LET currentRoot == state.history[1]
           newPath == findPathToNode(currentRoot, targetId)
       IN  IF newPath = <<>> THEN state
           ELSE [state EXCEPT !.currentItem = newPath[Len(newPath)],
                              !.history = newPath]

reduceReset(state) ==
  [initialState EXCEPT !.collection = state.collection,
                       !.generationMode = state.generationMode,
                       !.isConfigured = state.isConfigured,
                       !.isOffline = state.isOffline]

reduceReconfigure(state) ==
  [initialState EXCEPT !.collection = state.collection,
                       !.generationMode = state.generationMode,
                       !.isConfigured = FALSE,
                       !.isOffline = FALSE]

reduceLoadFromCollection(state, rootItem) ==
  [state EXCEPT !.currentItem = rootItem, !.history = <<rootItem>>,
                !.status = IdleStatus]

reduceUpdateSession(state, payload) ==
  [state EXCEPT !.currentItem = payload.currentItem,
                !.history = payload.history,
                !.collection = upsertRoot(state.collection, payload.root)]

reducer(state, action) ==
  CASE action.type = "UPDATE_SESSION" -> reduceUpdateSession(state, action.payload)
    [] action.type = "INIT_COLLECTION" -> [state EXCEPT !.collection = action.payload]
    [] action.type = "REMOVE_FROM_COLLECTION" ->
         [state EXCEPT !.collection = filterOut(state.collection, action.payload)]
    [] action.type = "LOAD_FROM_COLLECTION" -> reduceLoadFromCollection(state, action.payload)
    [] action.type = "SET_STATUS" -> [state EXCEPT !.status = action.payload]
    [] action.type = "NAVIGATE_TO" -> reduceNavigateTo(state, action.payload)
    [] action.type = "SET_GENERATION_MODE" -> [state EXCEPT !.generationMode = action.payload]
    [] action.type = "CONFIGURE_ACCESS" ->
         [state EXCEPT !.isConfigured = TRUE, !.isOffline = action.payload]
    [] action.type = "RESET" -> reduceReset(state)
    [] action.type = "RECONFIGURE" -> reduceReconfigure(state)
    [] OTHER -> state

Status(isGenerating, stage, message) ==
  [isGenerating |-> isGenerating, stage |-> stage, message |-> message]

SetStatus(isGenerating, stage, message) ==
  [type |-> "SET_STATUS", payload |-> Status(isGenerating, stage, message)]

\* ------------------------------------------------------------ AI capability

\* The names the analysis service may give a subject other than the query itself
\* (data.name).
AiNames == { <<"A">> }
\* Which of the generateImage calls (assembled, cutaway, exploded) return an image.
AllImageOutcomes == BOOLEAN \X BOOLEAN \X BOOLEAN
AllOrNothing == { <<TRUE, TRUE, TRUE>>, <<FALSE, FALSE, FALSE>> }

\* The images a successful generateImage call returns, by view.
ImgAssembled == "img-assembled"
ImgCutaway == "img-cutaway"
ImgExploded == "img-exploded"

\* A variant that goes on to the detail views without an assembled image.
generateVisualAssetsWithoutAssembled(mode, okAssembled, okCutaway, okExploded) ==
  IF mode = "fast"
  THEN IF ~okExploded THEN NoImages
       ELSE [assembled |-> "", cutaway |-> "", exploded |-> ImgExploded]
  ELSE [assembled |-> IF okAssembled THEN ImgAssembled ELSE "",
        cutaway |-> IF okCutaway THEN ImgCutaway ELSE ImgAssembled,
        exploded |-> IF okExploded THEN ImgExploded ELSE ImgAssembled]

\* A variant that leaves a failed detail view absent.
generateVisualAssetsLeavingAbsent(mode, okAssembled, okCutaway, okExploded) ==
  IF mode = "fast"
  THEN IF ~okExploded THEN NoImages
       ELSE [assembled |-> "", cutaway |-> "", exploded |-> ImgExploded]
  ELSE IF ~okAssembled THEN NoImages
       ELSE [assembled |-> ImgAssembled,
             cutaway |-> IF okCutaway THEN ImgCutaway ELSE "",
             exploded |-> IF okExploded THEN ImgExploded ELSE ""]

\* generateVisualAssets, given which of its generateImage calls return an image.
\* The result NoImages stands for `undefined`.
generateVisualAssets(mode, okAssembled, okCutaway, okExploded) ==
  IF mode = "fast"
  THEN IF ~okExploded THEN NoImages
       ELSE [assembled |-> "", cutaway |-> "", exploded |-> ImgExploded]
  ELSE IF ~okAssembled THEN NoImages
       ELSE [assembled |-> ImgAssembled,
             cutaway |-> IF okCutaway THEN ImgCutaway ELSE ImgAssembled,
             exploded |-> IF okExploded THEN ImgExploded ELSE ImgAssembled]

\* The coordinates the vision service reports for a part.
ScanCoords == { 30 }

\* What detectPartCoordinates may resolve to: [] on failure, else the service's list.
ScanResults(partNames, coords) ==
  { <<>> } \cup
  { [i \in 1..Len(partNames) |->
       [name |-> partNames[i], description |-> "seen", x |-> c, y |-> c]] :
    c \in coords }

\* The synthetic placement used when there is no exploded image.
fallbackParts(partNames) ==
  [i \in 1..Len(partNames) |->
     [name |-> partNames[i], description |-> "Visual analysis unavailable.",
      x |-> 50, y |-> 50 + ((i - 1) * 10)]]

\* ----------------------------------------------------------- context query

\* A variant that blanks nothing.
dedupeKeepingAll(cleanParts, i) == cleanParts

RECURSIVE dedupe(_, _)
\* The loop `for (i = length - 1; i > 0; i--)`, with i one-based here.
dedupe(cleanParts, i) ==
  IF i <= 1 THEN cleanParts
  ELSE IF includes(toLowerCase(cleanParts[i]), toLowerCase(cleanParts[i - 1]))
       THEN dedupe([cleanParts EXCEPT ![i - 1] = <<>>], i - 1)
       ELSE dedupe(cleanParts, i - 1)

RECURSIVE join(_, _)
join(strs, sep) ==
  IF Len(strs) = 0 THEN <<>>
  ELSE IF Len(strs) = 1 THEN strs[1]
  ELSE strs[1] \o sep \o join(Tail(strs), sep)

buildContextQuery(history, query, parentId) ==
  IF parentId # NoId /\ Len(history) > 0
  THEN LET currentRoot == history[1]
           path == findPathToNode(currentRoot, parentId)
       IN  IF path # <<>>
           THEN LET parts == [i \in 1..Len(path) |-> path[i].name]
                    cleanParts == dedupe(parts, Len(parts))
                    contextString ==
                      join(SelectSeq(cleanParts, LAMBDA s : s # <<>>), Space)
                IN  query \o From \o contextString
           ELSE query
  ELSE query

\* ------------------------------------------------------------- memory check

\* A variant that takes only a child named exactly as the query.
nameMatchesExactly(childName, query) == toLowerCase(childName) = toLowerCase(query)

nameMatches(childName, query) ==
  \/ includes(toLowerCase(childName), toLowerCase(query))
  \/ includes(toLowerCase(query), toLowerCase(childName))

\* Array.find over currentItem.children: the first match, or NullItem.
existingChildOf(currentItem, query) ==
  LET hits == { i \in 1..Len(currentItem.children) :
                  nameMatches(currentItem.children[i].name, query) }
  IN  IF hits = {} THEN NullItem
      ELSE currentItem.children[CHOOSE i \in hits : \A j \in hits : i <= j]

\* ------------------------------------------------------------ object store

put(store, item) ==
  [i \in (DOMAIN store) \cup {item.id} |-> IF i = item.id THEN item ELSE store[i]]

RECURSIVE bulkPutKeepingStored(_, _)
\* A variant that adds records and never replaces a stored one.
bulkPutKeepingStored(store, items) ==
  IF Len(items) = 0 THEN store
  ELSE bulkPutKeepingStored(
         IF Head(items).id \in DOMAIN store THEN store ELSE put(store, Head(items)),
         Tail(items))

RECURSIVE bulkPut(_, _)
\* items.forEach(item => store.put(item)) in one transaction.
bulkPut(store, items) ==
  IF Len(items) = 0 THEN store ELSE bulkPut(put(store, Head(items)), Tail(items))

\* store.put(item) throws DataError when the record has no value at the key
\* path 'id'.
hasKey(item) == item.id # NoId

RECURSIVE validPrefix(_)
\* The records forEach has put when the first put throws.
validPrefix(items) ==
  IF Len(items) = 0 \/ ~hasKey(Head(items)) THEN <<>>
  ELSE <<Head(items)>> \o validPrefix(Tail(items))

delete(store, id) == [i \in (DOMAIN store) \ {id} |-> store[i]]

RECURSIVE sortByTimestampDesc(_, _)
\* store.getAll() lists the records by key; the sort is stable, so records of
\* equal timestamp stay in key order.
sortByTimestampDesc(store, keys) ==
  IF keys = {} THEN <<>>
  ELSE LET first == CHOOSE k \in keys : \A j \in keys :
                      \/ store[k].timestamp > store[j].timestamp
                      \/ store[k].timestamp = store[j].timestamp /\ k <= j
       IN  <<store[first]>> \o sortByTimestampDesc(store, keys \ {first})

getAllExplorations(store) == sortByTimestampDesc(store, DOMAIN store)

\* ------------------------------------------------------------------- state

VARIABLES
  state,      \* the reducer's AppState
  pipes,      \* the suspended explore / exploreFromDataUrl calls
  clock,      \* Date.now()
  db,         \* the IndexedDB object store: id -> root
  saves,      \* saveExploration calls whose put has not finished
  deletes,    \* the removeExploration call whose delete has not finished
  imp         \* the importDatabase call in progress

vars == <<state, pipes, clock, db, saves, deletes, imp>>

Pipes == 1..MaxInFlight

IdlePipe ==
  [pc |-> "idle", query |-> <<>>, parentId |-> NoId, depth |-> 0,
   contextQuery |-> <<>>, currentRoot |-> NullItem, generationMode |-> "full",
   id |-> NoId, name |-> <<>>, partNames |-> <<>>, images |-> NoImages,
   pending |-> {}, reference |-> ""]

IdleImport == [pc |-> "idle", items |-> <<>>]
NoDelete == [pc |-> "idle", id |-> NoId, active |-> FALSE]

\* An exploration an earlier session left in the store: the root explore("a")
\* compiled, with the child explore("B", its id) attached to it.
StoredChild ==
  [id |-> 2, rootId |-> 1, parentId |-> 1, name |-> <<"B">> \o From \o <<"a">>,
   depth |-> 1, timestamp |-> 3,
   images |-> [assembled |-> ImgAssembled, cutaway |-> ImgCutaway, exploded |-> ImgExploded],
   parts |-> <<>>, children |-> <<>>]

StoredRoot ==
  [id |-> 1, rootId |-> 1, parentId |-> NoId, name |-> <<"a">>,
   depth |-> 0, timestamp |-> 2,
   images |-> [assembled |-> ImgAssembled, cutaway |-> ImgCutaway, exploded |-> ImgExploded],
   parts |-> <<>>, children |-> <<StoredChild>>]

\* The first reading of the clock in this session, later than every stored one.
FirstClock == StoredChild.timestamp + 1
\* The ids of the session: the stored ones, one that no Item has unless a
\* backup is imported, and those the clock can hand out.
Ids == 1..(FirstClock + MaxItems - 1)

\* The provider after mount: initDB has loaded the collection from the store,
\* which is empty or holds the stored exploration.
Init ==
  /\ db \in { << >>, put(<< >>, StoredRoot) }
  /\ state = [initialState EXCEPT !.collection = getAllExplorations(db)]
  /\ pipes = [p \in Pipes |-> IdlePipe]
  /\ clock = FirstClock
  /\ saves = {}
  /\ deletes = NoDelete
  /\ imp = IdleImport

\* The calls suspended at an await.
inFlight ==
  Cardinality({p \in Pipes : pipes[p].pc # "idle"}) + Cardinality(saves)
    + (IF deletes.pc # "idle" THEN 1 ELSE 0) + (IF imp.pc # "idle" THEN 1 ELSE 0)

freePipe == CHOOSE p \in Pipes : pipes[p].pc = "idle" /\ \A q \in Pipes : pipes[q].pc = "idle" => p <= q

OfflineMessage == "Offline Mode: Cannot generate new explorations."
ErrorMessage == "Exploration failed. System Error."

\* ----------------------------------------------------------------- explore

\* A variant that never blocks.
offlineIgnored(st) == FALSE

\* OFFLINE CHECK: `if (state.isOffline)`.
offlineBlocked(st) == st.isOffline

\* The catch block of explore.
\* A variant that also clears the session.
catchErrorClearingSession(st) ==
  reducer(reducer(st, [type |-> "RESET"]), SetStatus(FALSE, "error", ErrorMessage))

catchError(st) == reducer(st, SetStatus(FALSE, "error", ErrorMessage))

\* explore(query, parentId) up to its first await.
explore(query, parentId) ==
  IF state.status.isGenerating
  THEN UNCHANGED vars
  ELSE LET existingChild ==
             IF parentId # NoId /\ state.currentItem # NullItem
             THEN existingChildOf(state.currentItem, query)
             ELSE NullItem
       IN
       IF existingChild # NullItem
       THEN /\ state' = reducer(state, [type |-> "NAVIGATE_TO", payload |-> existingChild.id])
            /\ UNCHANGED <<pipes, clock, db, saves, deletes, imp>>
       ELSE IF offlineBlocked(state)
       THEN /\ state' = reducer(state, SetStatus(FALSE, "error", OfflineMessage))
            /\ UNCHANGED <<pipes, clock, db, saves, deletes, imp>>
       ELSE /\ inFlight < MaxInFlight
            /\ LET depth == IF parentId # NoId /\ state.currentItem # NullItem
                            THEN state.currentItem.depth + 1 ELSE 0
                   contextQuery == buildContextQuery(state.history, query, parentId)
               IN  pipes' = [pipes EXCEPT ![freePipe] =
                      [IdlePipe EXCEPT !.pc = "analyzing", !.query = query,
                         !.parentId = parentId, !.depth = depth,
                         !.contextQuery = contextQuery,
                         !.currentRoot = IF Len(state.history) > 0
                                         THEN state.history[1] ELSE NullItem,
                         !.generationMode = state.generationMode]]
            /\ state' = reducer(state, SetStatus(TRUE, "analyzing", "Analyzing structure..."))
            /\ UNCHANGED <<clock, db, saves, deletes, imp>>

\* A call of explore by any caller of the interface.
Explore == \E query \in Queries, parentId \in Ids \cup {NoId} : explore(query, parentId)

\* The calls the rendering surface makes: the search bar's explore(query) and a
\* hotspot's explore(part.name, currentItem.id).
ExploreFromUI ==
  \E query \in Queries, parentId \in {NoId, state.currentItem.id} :
    explore(query, parentId)

\* COMPILE FINAL ITEM
\* A variant that makes every compiled Item its own root.
compileItemAsOwnRoot(pipe, images, finalParts, now) ==
  [id |-> pipe.id, rootId |-> pipe.id,
   parentId |-> pipe.parentId, name |-> pipe.name, depth |-> pipe.depth,
   timestamp |-> now, images |-> images, parts |-> finalParts, children |-> <<>>]

compileItem(pipe, images, finalParts, now) ==
  [id |-> pipe.id, rootId |-> IF pipe.parentId # NoId THEN pipe.currentRoot.id ELSE pipe.id,
   parentId |-> pipe.parentId, name |-> pipe.name, depth |-> pipe.depth,
   timestamp |-> now, images |-> images, parts |-> finalParts, children |-> <<>>]

\* UPDATE STATE: the payload of UPDATE_SESSION.
sessionUpdate(pipe, completeItem) ==
  IF pipe.parentId = NoId
  THEN [currentItem |-> completeItem, history |-> <<completeItem>>, root |-> completeItem]
  ELSE LET currentRoot == pipe.currentRoot
           newRoot == updateItemInTree(currentRoot, pipe.parentId, completeItem)
           found == findPathToNode(newRoot, completeItem.id)
           newHistory == IF found # <<>> THEN found ELSE <<newRoot, completeItem>>
       IN  [currentItem |-> completeItem, history |-> newHistory, root |-> newRoot]

\* The tail of explore from COMPILE FINAL ITEM on, with its catch block:
\* reading history[0].id of an empty history throws.
finish(p, images, finalParts, st) ==
  LET pipe == pipes[p] IN
  IF pipe.parentId # NoId /\ pipe.currentRoot = NullItem
  THEN /\ state' = catchError(st)
       /\ pipes' = [pipes EXCEPT ![p] = IdlePipe]
       /\ UNCHANGED <<clock, db, saves, deletes, imp>>
  ELSE LET completeItem == compileItem(pipe, images, finalParts, clock)
           payload == sessionUpdate(pipe, completeItem)
       IN  /\ state' = reducer(reducer(st, [type |-> "UPDATE_SESSION", payload |-> payload]),
                               SetStatus(FALSE, "complete", ""))
           /\ saves' = saves \cup {payload.root}
           /\ pipes' = [pipes EXCEPT ![p] = IdlePipe]
           /\ UNCHANGED <<clock, db, deletes, imp>>

\* analyzeStructure resolves or rejects; it resolves while fewer than maxItems
\* clock readings have been used.  The id is Date.now() at the time it resolves,
\* and the clock has advanced by one of `ticks` when it is read next.
AnalyzeReturnWith(p, aiNames, maxItems, partNameLists, ticks) ==
  /\ pipes[p].pc = "analyzing"
  /\ \/ /\ clock < FirstClock + maxItems
        /\ \E dataName \in aiNames \cup {pipes[p].contextQuery}, partNames \in partNameLists :
             LET effectiveName == IF pipes[p].parentId # NoId
                                  THEN pipes[p].contextQuery ELSE dataName
             IN  pipes' = [pipes EXCEPT ![p].pc = "rendering", ![p].id = clock,
                                        ![p].name = effectiveName,
                                        ![p].partNames = partNames]
        /\ \E tick \in ticks : clock' = clock + tick
        /\ state' = reducer(state, SetStatus(TRUE, "rendering_assembled",
                       IF pipes[p].generationMode = "full"
                       THEN "Constructing base model..." ELSE "Generating schematic..."))
        /\ UNCHANGED <<db, saves, deletes, imp>>
     \/ /\ state' = catchError(state)
        /\ pipes' = [pipes EXCEPT ![p] = IdlePipe]
        /\ UNCHANGED <<clock, db, saves, deletes, imp>>

\* The analysis of a session whose clock advances between two readings.
AnalyzeReturnUpTo(p, aiNames, maxItems) ==
  AnalyzeReturnWith(p, aiNames, maxItems, PartNameLists, {1})

AnalyzeReturn(p, aiNames) == AnalyzeReturnUpTo(p, aiNames, MaxItems)

\* STEP 3 of explore, entered with the images generateVisualAssets resolved to:
\* the scan of the exploded view, or the fallback parts and the compilation.
scanOrFallback(p, images) ==
  IF images # NoImages /\ images.exploded # ""
  THEN /\ state' = reducer(state, SetStatus(TRUE, "scanning",
                                           "Calibrating component locations..."))
       /\ pipes' = [pipes EXCEPT ![p].pc = "scanning", ![p].images = images,
                                 ![p].pending = {}]
       /\ UNCHANGED <<clock, db, saves, deletes, imp>>
  ELSE finish(p, images, fallbackParts(pipes[p].partNames), state)

\* generateVisualAssets resolves (it never rejects).
VisualAssetsReturn(p, outcomes) ==
  /\ pipes[p].pc = "rendering"
  /\ \E ok \in outcomes :
       scanOrFallback(p, generateVisualAssets(pipes[p].generationMode, ok[1], ok[2], ok[3]))

\* generateVisualAssets await by await.  Its first generateImage call resolves:
\* the exploded view in fast mode, the assembled view in full mode.  In full
\* mode an assembled image is followed by the two calls of Promise.all.
FirstImageReturn(p) ==
  /\ pipes[p].pc = "rendering"
  /\ \E ok \in BOOLEAN :
       IF pipes[p].generationMode = "full" /\ ok
       THEN /\ pipes' = [pipes EXCEPT ![p].pc = "details",
                                      ![p].images = [NoImages EXCEPT !.assembled = ImgAssembled],
                                      ![p].pending = {"cutaway", "exploded"},
                                      ![p].reference = ImgAssembled]
            /\ UNCHANGED <<state, clock, db, saves, deletes, imp>>
       ELSE scanOrFallback(p, generateVisualAssets(pipes[p].generationMode, ok, ok, ok))

\* A variant that goes on with the first detail view that returns.
DetailImageReturnNotWaiting(p, view) ==
  /\ pipes[p].pc = "details"
  /\ view \in pipes[p].pending
  /\ \E ok \in BOOLEAN :
       scanOrFallback(p, generateVisualAssets(pipes[p].generationMode, TRUE,
                                              view = "cutaway" /\ ok,
                                              view = "exploded" /\ ok))

\* One of the two generateImage calls of Promise.all returns, with an image
\* or without; when it is the last of the two, Promise.all resolves and
\* generateVisualAssets returns the bundle with its fallbacks.
DetailImageReturn(p, view) ==
  /\ pipes[p].pc = "details"
  /\ view \in pipes[p].pending
  /\ \E ok \in BOOLEAN :
       LET result == IF ~ok THEN ""
                     ELSE IF view = "cutaway" THEN ImgCutaway ELSE ImgExploded
           images == [pipes[p].images EXCEPT ![view] = result]
       IN  IF pipes[p].pending = {view}
           THEN scanOrFallback(p, generateVisualAssets(pipes[p].generationMode,
                                                       images.assembled # "",
                                                       images.cutaway # "",
                                                       images.exploded # ""))
           ELSE /\ pipes' = [pipes EXCEPT ![p].images = images,
                                          ![p].pending = pipes[p].pending \ {view}]
                /\ UNCHANGED <<state, clock, db, saves, deletes, imp>>

\* The Promise.all of the cutaway and exploded calls resolves.
DetailImagesReturn(p) ==
  /\ pipes[p].pc = "details"
  /\ \E okCutaway \in BOOLEAN, okExploded \in BOOLEAN :
       scanOrFallback(p, generateVisualAssets(pipes[p].generationMode,
                                              pipes[p].images.assembled # "",
                                              okCutaway, okExploded))

\* detectPartCoordinates resolves (it never rejects).
DetectReturn(p, coords) ==
  /\ pipes[p].pc = "scanning"
  /\ \E finalParts \in ScanResults(pipes[p].partNames, coords) :
       finish(p, pipes[p].images, finalParts, state)

\* ------------------------------------------------------- exploreFromDataUrl

IdentifyMessage == "Failed to identify object from image."

\* exploreFromDataUrl(base64) up to its await of identifyMainObject.
ExploreFromDataUrl ==
  IF state.status.isGenerating
  THEN UNCHANGED vars
  ELSE IF offlineBlocked(state)
  THEN /\ state' = reducer(state, SetStatus(FALSE, "error", OfflineMessage))
       /\ UNCHANGED <<pipes, clock, db, saves, deletes, imp>>
  ELSE /\ inFlight < MaxInFlight
       /\ pipes' = [pipes EXCEPT ![freePipe] =
             [IdlePipe EXCEPT !.pc = "identifying",
                              !.generationMode = state.generationMode]]
       /\ state' = reducer(state, SetStatus(TRUE, "analyzing",
                                           "Scanning image for object identification..."))
       /\ UNCHANGED <<clock, db, saves, deletes, imp>>

\* A variant that, when the identification fails, goes on to the analysis
\* with a name of its own.
IdentifyReturnGoingOn(p, objectNames) ==
  /\ pipes[p].pc = "identifying"
  /\ \E objectName \in objectNames \cup {<<"B">>} :
       /\ pipes' = [pipes EXCEPT ![p].pc = "analyzing", ![p].query = objectName,
                                  ![p].contextQuery = objectName]
       /\ state' = reducer(state, SetStatus(TRUE, "analyzing", "Analyzing structure..."))
  /\ UNCHANGED <<clock, db, saves, deletes, imp>>

\* A variant whose explore reads the status of the render in force when the
\* identification returns: it finds the request in progress and returns.
IdentifyReturnOnLiveState(p, objectNames) ==
  /\ pipes[p].pc = "identifying"
  /\ \/ \E objectName \in objectNames :
          IF state.status.isGenerating
          THEN /\ pipes' = [pipes EXCEPT ![p] = IdlePipe]
               /\ state' = state
          ELSE /\ pipes' = [pipes EXCEPT ![p].pc = "analyzing", ![p].query = objectName,
                                          ![p].contextQuery = objectName]
               /\ state' = reducer(state, SetStatus(TRUE, "analyzing", "Analyzing structure..."))
     \/ /\ pipes' = [pipes EXCEPT ![p] = IdlePipe]
        /\ state' = reducer(state, SetStatus(FALSE, "error", IdentifyMessage))
  /\ UNCHANGED <<clock, db, saves, deletes, imp>>

\* identifyMainObject resolves or rejects.  On success explore(objectName,
\* undefined, base64) runs on the snapshot of the call: its isGenerating and
\* isOffline are the false ones the call has already seen.
IdentifyReturn(p, objectNames) ==
  /\ pipes[p].pc = "identifying"
  /\ \/ \E objectName \in objectNames :
          /\ pipes' = [pipes EXCEPT ![p].pc = "analyzing", ![p].query = objectName,
                                     ![p].contextQuery = objectName]
          /\ state' = reducer(state, SetStatus(TRUE, "analyzing", "Analyzing structure..."))
     \/ /\ pipes' = [pipes EXCEPT ![p] = IdlePipe]
        /\ state' = reducer(state, SetStatus(FALSE, "error", IdentifyMessage))
  /\ UNCHANGED <<clock, db, saves, deletes, imp>>

\* ------------------------------------------------------------- persistence

\* A variant that takes the root out of the Collection when its put fails.
SaveReturnRollingBack ==
  \E root \in saves :
    /\ saves' = saves \ {root}
    /\ \/ db' = put(db, root) /\ state' = state
       \/ /\ db' = db
          /\ state' = reducer(state, [type |-> "REMOVE_FROM_COLLECTION", payload |-> root.id])
    /\ UNCHANGED <<pipes, clock, deletes, imp>>

\* The put of a saveExploration call finishes, or fails and is logged.
SaveReturn ==
  \E root \in saves :
    /\ saves' = saves \ {root}
    /\ \/ db' = put(db, root)
       \/ db' = db
    /\ UNCHANGED <<state, pipes, clock, deletes, imp>>

\* The put of a saveExploration call finishes, in a store that accepts every
\* write.  The calls are not awaited and not sequenced by explore: each opens
\* its own connection and its own transaction, and any of the outstanding
\* writes may be the next one to finish.
SaveReturnStored ==
  \E root \in saves :
    /\ saves' = saves \ {root}
    /\ db' = put(db, root)
    /\ UNCHANGED <<state, pipes, clock, deletes, imp>>

\* removeExploration(id) up to its await of deleteExploration; the sidebar
\* offers the roots of the collection.
RemoveExploration ==
  /\ deletes.pc = "idle"
  /\ inFlight < MaxInFlight
  /\ \E i \in 1..Len(state.collection) :
       LET id == state.collection[i].id
       IN  deletes' = [pc |-> "deleting", id |-> id,
                       active |-> Len(state.history) > 0 /\ state.history[1].id = id]
  /\ UNCHANGED <<state, pipes, clock, db, saves, imp>>

\* A variant that resets the session when the delete of the active root fails.
DeleteReturnResettingOnFailure ==
  /\ deletes.pc = "deleting"
  /\ deletes' = NoDelete
  /\ \/ /\ db' = delete(db, deletes.id)
        /\ LET removed == reducer(state, [type |-> "REMOVE_FROM_COLLECTION",
                                          payload |-> deletes.id])
           IN  state' = IF deletes.active THEN reducer(removed, [type |-> "RESET"])
                        ELSE removed
     \/ /\ db' = db
        /\ state' = IF deletes.active THEN reducer(state, [type |-> "RESET"])
                     ELSE state
  /\ UNCHANGED <<pipes, clock, saves, imp>>

\* deleteExploration resolves or rejects.  The test of state.history after the
\* await reads the snapshot of the call.
DeleteReturn ==
  /\ deletes.pc = "deleting"
  /\ deletes' = NoDelete
  /\ \/ /\ db' = delete(db, deletes.id)
        /\ LET removed == reducer(state, [type |-> "REMOVE_FROM_COLLECTION",
                                          payload |-> deletes.id])
           IN  state' = IF deletes.active THEN reducer(removed, [type |-> "RESET"])
                        ELSE removed
     \/ UNCHANGED <<db, state>>
  /\ UNCHANGED <<pipes, clock, saves, imp>>

\* A root of an earlier session that only a backup file holds.
BackupRoot ==
  [id |-> 3, rootId |-> 3, parentId |-> NoId, name |-> <<"c">>,
   depth |-> 0, timestamp |-> 3,
   images |-> [assembled |-> ImgAssembled, cutaway |-> ImgCutaway, exploded |-> ImgExploded],
   parts |-> <<>>, children |-> <<>>]

\* The roots the session holds or has held in a snapshot, and those of earlier
\* sessions: what a backup file written by exportDatabase may contain.
knownRoots ==
  {StoredRoot, BackupRoot}
    \cup {state.collection[i] : i \in 1..Len(state.collection)}
    \cup {db[k] : k \in DOMAIN db}
    \cup {pipes[p].currentRoot : p \in Pipes}
    \cup (IF Len(state.history) > 0 THEN {state.history[1]} ELSE {})

\* The arrays a file may hold: a backup of one root, or the stored root
\* followed by a record without id.
ImportFiles ==
  { <<r>> : r \in knownRoots \ {NullItem} }
    \cup { <<StoredRoot, NullItem>> }

\* importDatabase(file) up to its await of bulkSaveExplorations; a file whose
\* JSON is not an array throws before anything is written.
ImportDatabase ==
  /\ imp.pc = "idle"
  /\ \/ \E items \in ImportFiles :
          /\ inFlight < MaxInFlight
          /\ imp' = [pc |-> "saving", items |-> items]
          /\ UNCHANGED <<state, pipes, clock, db, saves, deletes>>
     \/ UNCHANGED vars

\* bulkSaveExplorations resolves (the transaction completed) or rejects: a put
\* threw, and the transaction commits the puts made before it; or the database
\* did not open or the transaction aborted, and nothing is written.
BulkSaveReturn ==
  /\ imp.pc = "saving"
  /\ \/ /\ validPrefix(imp.items) = imp.items
        /\ db' = bulkPut(db, imp.items)
        /\ imp' = [imp EXCEPT !.pc = "loading"]
     \/ /\ validPrefix(imp.items) # imp.items
        /\ db' = bulkPut(db, validPrefix(imp.items))
        /\ imp' = IdleImport
     \/ /\ db' = db
        /\ imp' = IdleImport
  /\ UNCHANGED <<state, pipes, clock, saves, deletes>>

\* getAllExplorations resolves: with the store's records, or with [] when the
\* database cannot be opened.
GetAllReturn ==
  /\ imp.pc = "loading"
  /\ \E items \in {getAllExplorations(db), <<>>} :
       state' = reducer(state, [type |-> "INIT_COLLECTION", payload |-> items])
  /\ imp' = IdleImport
  /\ UNCHANGED <<pipes, clock, db, saves, deletes>>

\* ------------------------------------------------------- other user actions

LoadExploration ==
  \E i \in 1..Len(state.collection) :
    /\ state' = reducer(state, [type |-> "LOAD_FROM_COLLECTION",
                                payload |-> state.collection[i]])
    /\ UNCHANGED <<pipes, clock, db, saves, deletes, imp>>

NavigateTo ==
  \E targetId \in Ids :
    /\ state' = reducer(state, [type |-> "NAVIGATE_TO", payload |-> targetId])
    /\ UNCHANGED <<pipes, clock, db, saves, deletes, imp>>

Reset ==
  /\ state' = reducer(state, [type |-> "RESET"])
  /\ UNCHANGED <<pipes, clock, db, saves, deletes, imp>>

Reconfigure ==
  /\ state' = reducer(state, [type |-> "RECONFIGURE"])
  /\ UNCHANGED <<pipes, clock, db, saves, deletes, imp>>

ConfigureAccess ==
  \E isOffline \in BOOLEAN :
    /\ state' = reducer(state, [type |-> "CONFIGURE_ACCESS", payload |-> isOffline])
    /\ UNCHANGED <<pipes, clock, db, saves, deletes, imp>>

SetGenerationMode ==
  \E mode \in {"fast", "full"} :
    /\ state' = reducer(state, [type |-> "SET_GENERATION_MODE", payload |-> mode])
    /\ UNCHANGED <<pipes, clock, db, saves, deletes, imp>>

\* ----------------------------------------------------------- specification

\* The answers of the services and of the object store.  The analysis names
\* each subject by its query, image generation succeeds or fails as a whole,
\* and the scan fails.
Returns ==
  \/ \E p \in Pipes : IdentifyReturn(p, {<<"c">>})
  \/ \E p \in Pipes : AnalyzeReturn(p, {})
  \/ \E p \in Pipes : VisualAssetsReturn(p, AllOrNothing)
  \/ \E p \in Pipes : DetectReturn(p, {})
  \/ SaveReturn
  \/ DeleteReturn

\* The session as the rendering surface drives it, its calls interleaved freely
\* with the returns of the calls still suspended.
Next ==
  \/ ExploreFromUI
  \/ ExploreFromDataUrl
  \/ Returns
  \/ RemoveExploration
  \/ LoadExploration
  \/ NavigateTo
  \/ Reset

Spec == Init /\ [][Next]_vars

\* No explore or exploreFromDataUrl call is suspended.
noPipeline == \A p \in Pipes : pipes[p].pc = "idle"

\* The session under any caller of the interface (any parent id, online or
\* offline) that starts a request once the previous one has settled.
NextApi ==
  \/ noPipeline /\ Explore
  \/ noPipeline /\ ExploreFromDataUrl
  \/ Returns
  \/ RemoveExploration
  \/ LoadExploration
  \/ NavigateTo
  \/ Reset
  \/ Reconfigure
  \/ ConfigureAccess

SpecApi == Init /\ [][NextApi]_vars

\* The session with its backup files: explorations from the rendering surface,
\* one at a time, interleaved with imports, deletions and navigation.
NextImport ==
  \/ noPipeline /\ ExploreFromUI
  \/ noPipeline /\ ExploreFromDataUrl
  \/ Returns
  \/ ImportDatabase
  \/ BulkSaveReturn
  \/ GetAllReturn
  \/ RemoveExploration
  \/ LoadExploration
  \/ NavigateTo
  \/ Reset

SpecImport == Init /\ [][NextImport]_vars

\* Explorations that overlap: the rendering surface starts a request while an
\* earlier one is suspended, and both analyses succeed.  Image generation
\* fails, so every Item is compiled with the fallback parts.
NextOverlap ==
  \/ ExploreFromUI
  \/ \E p \in Pipes : AnalyzeReturnUpTo(p, {}, MaxItems + 1)
  \/ \E p \in Pipes : VisualAssetsReturn(p, {<<FALSE, FALSE, FALSE>>})
  \/ SaveReturn
  \/ LoadExploration
  \/ NavigateTo
  \/ Reset

SpecOverlap == Init /\ [][NextOverlap]_vars

\* ---------------------------------------------------------- the tree store

\* The largest tree the tree store is exercised on, in Items.
MaxNodes == 3

TreeIds == 1..MaxNodes

\* An Item as explore compiles it.
node(id, rootId, parentId, depth, children) ==
  [NullItem EXCEPT !.id = id, !.rootId = rootId, !.parentId = parentId,
                   !.name = <<"a">>, !.depth = depth, !.timestamp = id,
                   !.children = children]

\* The trees the session starts from, of up to three Items with ids below
\* MaxNodes: a root, a root with a child, a root with two children, and a root
\* with a child and a grandchild.
Trees ==
  LET ids == 1..(MaxNodes - 1)
      pairs == {t \in ids \X ids : t[1] # t[2]}
      triples == {t \in ids \X ids \X ids : t[1] # t[2] /\ t[1] # t[3] /\ t[2] # t[3]}
  IN  { node(a, a, NoId, 0, <<>>) : a \in ids }
        \cup { node(t[1], t[1], NoId, 0, <<node(t[2], t[1], t[1], 1, <<>>)>>) : t \in pairs }
        \cup { node(t[1], t[1], NoId, 0,
                    <<node(t[2], t[1], t[1], 1, <<>>), node(t[3], t[1], t[1], 1, <<>>)>>) :
                 t \in triples }
        \cup { node(t[1], t[1], NoId, 0,
                    <<node(t[2], t[1], t[1], 1, <<node(t[3], t[1], t[2], 2, <<>>)>>)>>) :
                 t \in triples }

\* A session that shows one of the trees.
InitTree ==
  /\ \E t \in Trees :
       state = [initialState EXCEPT !.currentItem = t, !.history = <<t>>,
                                    !.collection = <<t>>]
  /\ pipes = [p \in Pipes |-> IdlePipe]
  /\ clock = FirstClock
  /\ db = << >>
  /\ saves = {}
  /\ deletes = NoDelete
  /\ imp = IdleImport

\* The Item a request for `query` under parentId compiles with the given id.
childFor(root, parentId, id, query) ==
  compileItem([IdlePipe EXCEPT !.id = id, !.parentId = parentId, !.currentRoot = root,
                               !.name = query, !.depth = 1],
              NoImages, <<>>, clock)

\* The UPDATE STATE block of explore on its own: a compiled child is attached
\* under parentId in the active root and the session moves to it.
AttachChild ==
  \E parentId \in TreeIds, id \in TreeIds, query \in Queries :
    LET root == state.history[1]
        pipe == [IdlePipe EXCEPT !.parentId = parentId, !.currentRoot = root]
        payload == sessionUpdate(pipe, childFor(root, parentId, id, query))
    IN  /\ size(payload.root) <= MaxNodes
        /\ state' = reducer(state, [type |-> "UPDATE_SESSION", payload |-> payload])
        /\ UNCHANGED <<pipes, clock, db, saves, deletes, imp>>

NextTree == AttachChild \/ NavigateTo

SpecTree == InitTree /\ [][NextTree]_vars

\* ------------------------------------------------------------- properties

RECURSIVE nodesOf(_)
\* The Items of the tree under item, item included.
nodesOf(item) ==
  {item} \cup UNION {nodesOf(item.children[i]) : i \in 1..Len(item.children)}

childrenOf(item) == {item.children[i] : i \in 1..Len(item.children)}

\* The roots the session shows: the Collection's, and the active one.
sessionRoots ==
  {state.collection[i] : i \in 1..Len(state.collection)}
    \cup (IF Len(state.history) > 0 THEN {state.history[1]} ELSE {})

collectionIds == {state.collection[i].id : i \in 1..Len(state.collection)}

inProgress(p) == pipes[p].pc # "idle"

\* Pipeline p ends in this step, with the given terminal stage.
Ends(p, stage) ==
  /\ inProgress(p)
  /\ pipes'[p].pc = "idle"
  /\ state'.status.stage = stage

\* C1: at most one exploration pipeline is in flight at any time.
C1_SinglePipelineInFlight ==
  Cardinality({p \in Pipes : inProgress(p)}) <= 1

\* C2: no step of a request other than its successful commit changes
\* currentItem, history, the Collection, storage or the pending writes, and a
\* request that fails ends with the status {stage: error, isGenerating: false}
\* and a message.
C2_FailureCommitsNothing ==
  [][\A p \in Pipes :
       /\ (pipes'[p] # pipes[p] /\ ~Ends(p, "complete")) =>
            /\ state'.currentItem = state.currentItem
            /\ state'.history = state.history
            /\ state'.collection = state.collection
            /\ db' = db
            /\ saves' = saves
       /\ (inProgress(p) /\ pipes'[p].pc = "idle") =>
            state'.status.stage \in {"complete", "error"}
       /\ Ends(p, "error") =>
            /\ ~state'.status.isGenerating
            /\ state'.status.message # ""]_vars

\* C2 witness: a request failed while a session was open.
C2_Witness ==
  /\ state.status.stage = "error"
  /\ state.status.message = ErrorMessage
  /\ state.currentItem # NullItem
  /\ noPipeline

\* C3: history is non-empty iff currentItem is set, its last element is
\* currentItem, and each element is in the children list of the one before it.
C3_HistoryInvariant ==
  /\ (Len(state.history) > 0) <=> (state.currentItem # NullItem)
  /\ Len(state.history) > 0 => state.history[Len(state.history)] = state.currentItem
  /\ \A i \in 1..(Len(state.history) - 1) :
       \E c \in childrenOf(state.history[i]) : c.id = state.history[i + 1].id

RECURSIVE AttachedAt(_, _, _, _)
\* new is old with child appended to the children of the node whose id is parentId.
AttachedAt(old, new, parentId, child) ==
  IF old.id = parentId
  THEN new = [old EXCEPT !.children = Append(old.children, child)]
  ELSE /\ [new EXCEPT !.children = <<>>] = [old EXCEPT !.children = <<>>]
       /\ Len(new.children) = Len(old.children)
       /\ \A i \in 1..Len(old.children) :
            AttachedAt(old.children[i], new.children[i], parentId, child)

\* path leads from root to target by parent->child links.
IsPathTo(path, root, target) ==
  /\ Len(path) >= 1
  /\ path[1] = root
  /\ path[Len(path)] = target
  /\ \A i \in 1..(Len(path) - 1) : path[i + 1] \in childrenOf(path[i])

\* C4: when explore(query, parentId) succeeds without a memory hit and parentId
\* is a node of the root that was active when the request was made, the new
\* active root is that root with the compiled Item appended as the last child
\* of the parentId node, currentItem is the compiled Item, history is the path
\* from the new root to it, and the status is complete.
C4_ChildAttachedUnderParent ==
  [][\A p \in Pipes :
       (/\ Ends(p, "complete")
        /\ pipes[p].parentId # NoId
        /\ \E n \in nodesOf(pipes[p].currentRoot) : n.id = pipes[p].parentId)
       =>
         /\ state'.currentItem.id = pipes[p].id
         /\ state'.currentItem.children = <<>>
         /\ Len(state'.history) >= 2
         /\ AttachedAt(pipes[p].currentRoot, state'.history[1],
                       pipes[p].parentId, state'.currentItem)
         /\ IsPathTo(state'.history, state'.history[1], state'.currentItem)
         /\ state'.history[Len(state'.history) - 1].id = pipes[p].parentId
         /\ state'.status = Status(FALSE, "complete", "")]_vars

\* C4 witness: a child compiled in this session is shown under a parent that
\* already had a child.
C4_Witness ==
  /\ state.status.stage = "complete"
  /\ state.currentItem.id >= FirstClock
  /\ state.currentItem.parentId = StoredRoot.id
  /\ Len(state.history) = 2
  /\ Len(state.history[1].children) = 2
  /\ state.history[1].children[2] = state.currentItem

\* C5: every Item under a root of the session has that root's id as rootId, a
\* root's rootId is its own id, and every child has the id of the node that
\* holds it as parentId.
C5_RootAndParentIds ==
  \A r \in sessionRoots :
    /\ r.rootId = r.id
    /\ \A n \in nodesOf(r) :
         /\ n.rootId = r.id
         /\ \A c \in childrenOf(n) : c.parentId = n.id

\* C5 witness: a root of the Collection holds a child compiled in this session.
C5_Witness ==
  \E i \in 1..Len(state.collection) :
    \E n \in nodesOf(state.collection[i]) :
      n.id >= FirstClock /\ n.parentId # NoId

\* C6: a root has depth 0 and every child has its parent's depth plus one.
C6_DepthIsAncestorCount ==
  \A r \in sessionRoots :
    /\ r.depth = 0
    /\ \A n \in nodesOf(r) : \A c \in childrenOf(n) : c.depth = n.depth + 1

\* C7: a successful explore without parent id compiles an Item of depth 0 that is
\* its own root and has no parent; it becomes currentItem and the whole history,
\* it is in the Collection, and the other Collection entries are unchanged.
C7_RootRequestResult ==
  [][\A p \in Pipes :
       (Ends(p, "complete") /\ pipes[p].parentId = NoId)
       =>
         LET item == state'.currentItem IN
         /\ item.id = pipes[p].id
         /\ item.depth = 0
         /\ item.rootId = item.id
         /\ item.parentId = NoId
         /\ state'.history = <<item>>
         /\ \E i \in 1..Len(state'.collection) : state'.collection[i] = item
         /\ filterOut(state'.collection, item.id) = state.collection]_vars

\* C7 witness: a root compiled in this session is shown, beside an older root.
C7_Witness ==
  /\ state.status.stage = "complete"
  /\ state.currentItem.id >= FirstClock
  /\ state.currentItem.parentId = NoId
  /\ state.history = <<state.currentItem>>
  /\ Len(state.collection) >= 2

\* The node with id parentId under root has a child whose name matches query.
hasMatchingChild(root, parentId, query) ==
  \E n \in nodesOf(root) :
    n.id = parentId /\ \E c \in childrenOf(n) : nameMatches(c.name, query)

\* C8: when the node with id parentId under the active root already has a child
\* whose name matches the query, explore(query, parentId) starts no pipeline.
C8_MemoryHitStartsNoPipeline ==
  [][\A p \in Pipes :
       (/\ ~inProgress(p)
        /\ pipes'[p].pc = "analyzing"
        /\ pipes'[p].parentId # NoId
        /\ Len(state.history) > 0)
       => ~hasMatchingChild(state.history[1], pipes'[p].parentId, pipes'[p].query)]_vars

\* The request explore(query, parentId) finds no child of currentItem to go to.
noMemoryHit(query, parentId) ==
  \/ parentId = NoId
  \/ state.currentItem = NullItem
  \/ existingChildOf(state.currentItem, query) = NullItem

\* The step sets the offline error and changes nothing else.
OfflineFailure ==
  /\ state' = [state EXCEPT !.status = Status(FALSE, "error", OfflineMessage)]
  /\ UNCHANGED <<pipes, clock, db, saves, deletes, imp>>

\* C9: in offline mode a request that passes the in-progress guard and is not a
\* memory hit, and any image-origin request that passes it, fails at once: the
\* status is the offline error, no pipeline starts, and currentItem, history,
\* the Collection and storage are unchanged.
C9_OfflineFailsImmediately ==
  [][/\ \A query \in Queries, parentId \in Ids \cup {NoId} :
          (/\ state.isOffline
           /\ ~state.status.isGenerating
           /\ noMemoryHit(query, parentId)
           /\ explore(query, parentId))
          => OfflineFailure
     /\ (state.isOffline /\ ~state.status.isGenerating /\ ExploreFromDataUrl)
          => OfflineFailure]_vars

\* C9 witness: an offline session shows the offline error over an open item.
C9_Witness ==
  /\ state.isOffline
  /\ state.status = Status(FALSE, "error", OfflineMessage)
  /\ state.currentItem # NullItem

\* Neither the Collection nor storage holds a root with this id.
Absent(id) == id \notin collectionIds /\ id \notin DOMAIN db

\* C10: a root id that neither the Collection nor storage holds stays out of
\* both until a root-level explore compiles an Item with that id (the session
\* of this specification imports nothing).
C10_DeletedRootStaysDeleted ==
  [][\A id \in Ids :
       (Absent(id) /\ ~Absent(id)')
       => \E p \in Pipes :
            Ends(p, "complete") /\ pipes[p].parentId = NoId /\ pipes[p].id = id]_vars

\* The root a pending removeExploration names is the active root now.
deletedIsActive ==
  Len(state.history) > 0 /\ state.history[1].id = deletes.id

\* The pending removeExploration call settles in this step.
DeleteSettles == deletes.pc = "deleting" /\ deletes'.pc = "idle"

\* The pending removeExploration call settles in this step and takes effect.
DeleteTakesEffect ==
  /\ DeleteSettles
  /\ \/ db' # db
     \/ state'.collection # state.collection

\* C11: when removeExploration(id) settles for a root that is not the active
\* root at that moment, currentItem, history and status are unchanged.
C11_DeleteOfInactiveRootKeepsSession ==
  [][(DeleteSettles /\ ~deletedIsActive) =>
       /\ state'.currentItem = state.currentItem
       /\ state'.history = state.history
       /\ state'.status = state.status]_vars

\* C12: when removeExploration(id) takes effect for the root that is active at
\* that moment, the session is reset: currentItem is null, history is empty and
\* the status is idle.
C12_DeleteOfActiveRootResetsSession ==
  [][(DeleteTakesEffect /\ deletedIsActive) =>
       /\ state'.currentItem = NullItem
       /\ state'.history = <<>>
       /\ state'.status = IdleStatus]_vars

\* The ids of the records of a file.
idsOf(items) == {items[i].id : i \in 1..Len(items)}

\* after is before with every record of items written over it, the later
\* record winning among records of one id.
Overridden(before, items, after) ==
  /\ DOMAIN after = DOMAIN before \cup idsOf(items)
  /\ \A k \in DOMAIN after :
       IF k \in idsOf(items)
       THEN LET last == CHOOSE i \in 1..Len(items) :
                          /\ items[i].id = k
                          /\ \A j \in 1..Len(items) : items[j].id = k => j <= i
            IN  after[k] = items[last]
       ELSE after[k] = before[k]

\* listing holds each record of store once, newest first.
IsListingOf(listing, store) ==
  /\ Len(listing) = Cardinality(DOMAIN store)
  /\ {listing[i] : i \in 1..Len(listing)} = {store[k] : k \in DOMAIN store}
  /\ \A i \in 1..(Len(listing) - 1) : listing[i].timestamp >= listing[i + 1].timestamp

\* C13: when the bulk write of an import succeeds, storage is the previous
\* storage overridden by the imported roots; when the reload that follows
\* returns, the Collection is what getAll() returned (the listing of storage,
\* or nothing when the store could not be read), whatever it held in memory,
\* and nothing else of the session changes.
C13_ImportOverridesStorageAndReloads ==
  [][/\ (imp.pc = "saving" /\ imp'.pc = "loading") =>
          /\ Overridden(db, imp.items, db')
          /\ state' = state
     /\ (imp.pc = "loading" /\ imp'.pc = "idle") =>
          /\ IsListingOf(state'.collection, db) \/ state'.collection = <<>>
          /\ state' = [state EXCEPT !.collection = state'.collection]
          /\ db' = db]_vars

\* C13 witness: an import has replaced a stored root and reloaded a Collection
\* that no longer holds what the session had in memory.
C13_Witness ==
  /\ imp.pc = "idle"
  /\ 1 \in DOMAIN db
  /\ db[1] = StoredRoot
  /\ IsListingOf(state.collection, db)
  /\ Len(state.history) > 0
  /\ state.history[1].id = 1
  /\ Len(state.history[1].children) = 2

\* C14: an import that fails (its payload is not an array, or its bulk write
\* is rejected) leaves storage, the Collection, currentItem, history and status
\* unchanged.
C14_FailedImportChangesNothing ==
  [][(imp.pc = "saving" /\ imp'.pc = "idle") =>
       /\ db' = db
       /\ state' = state]_vars

\* C15: the step that completes an explore leaves the write of the new root
\* pending and storage untouched, with the status complete and not generating;
\* and the step in which a write finishes, or fails, changes nothing of the
\* session: currentItem, history, the Collection and the status stay.
C15_FailedWriteKeepsResult ==
  [][/\ \A p \in Pipes :
          Ends(p, "complete") =>
            /\ state'.history[1] \in saves'
            /\ state'.status = Status(FALSE, "complete", "")
            /\ db' = db
     /\ (saves' # saves /\ saves' \subseteq saves) => state' = state]_vars

\* C15 witness: the write of a root compiled in this session has failed, and the
\* session still shows the root, completed, with the root in the Collection.
C15_Witness ==
  /\ saves = {}
  /\ state.status = Status(FALSE, "complete", "")
  /\ state.currentItem.id >= FirstClock
  /\ state.history = <<state.currentItem>>
  /\ state.currentItem.id \in collectionIds
  /\ state.currentItem.id \notin DOMAIN db

\* path is a chain of parent->child links.
IsLinked(path) ==
  \A i \in 1..(Len(path) - 1) : path[i + 1] \in childrenOf(path[i])

\* C16: for every tree (the active root and each of its subtrees) and every id,
\* findPath returns a chain of parent->child links from the tree's root to a
\* node with that id when the tree holds one, and not-found otherwise.
C16_FindPathIsSoundAndComplete ==
  Len(state.history) > 0 =>
    \A root \in nodesOf(state.history[1]) :
      \A id \in TreeIds \cup {MaxNodes + 1} :
        LET path == findPathToNode(root, id) IN
        IF \E n \in nodesOf(root) : n.id = id
        THEN /\ path # <<>>
             /\ path[1] = root
             /\ path[Len(path)].id = id
             /\ IsLinked(path)
        ELSE path = <<>>

\* C16 witness: the session shows the path findPath found to a grandchild of
\* the root.
C16_Witness ==
  /\ Len(state.history) = 3
  /\ IsLinked(state.history)
  /\ state.history[3] = state.currentItem
  /\ state.history[3].parentId = state.history[2].id

RECURSIVE idStructure(_)
\* The tree with everything but the ids left out.
idStructure(item) ==
  <<item.id, [i \in 1..Len(item.children) |-> idStructure(item.children[i])]>>

\* The ids of the children of item are pairwise different.
distinctChildIds(item) ==
  \A i, j \in 1..Len(item.children) :
    item.children[i].id = item.children[j].id => i = j

\* C17: attaching a child a second time under the same parent changes nothing
\* of the tree's id structure, for every parent id and child, and no children
\* list holds two entries of one id.
C17_AttachChildIdempotent ==
  Len(state.history) > 0 =>
    LET root == state.history[1] IN
    /\ \A n \in nodesOf(root) : distinctChildIds(n)
    /\ \A parentId \in TreeIds, id \in TreeIds :
         LET child == childFor(root, parentId, id, <<"c">>)
             once == updateItemInTree(root, parentId, child)
             twice == updateItemInTree(once, parentId, child)
         IN  /\ idStructure(twice) = idStructure(once)
             /\ \A n \in nodesOf(once) : distinctChildIds(n)

\* C17 witness: a child was compiled again with the id of a child its parent
\* already held; the tree kept the earlier entry.
C17_Witness ==
  /\ Len(state.history) >= 2
  /\ IsLinked(state.history)
  /\ state.history[Len(state.history)].id = state.currentItem.id
  /\ state.history[Len(state.history)].parentId = state.currentItem.parentId
  /\ state.history[Len(state.history)].name = <<"B">>
  /\ state.currentItem.name = <<"c">>
  /\ state.history[Len(state.history) - 1].id = state.currentItem.parentId

\* C18: after every successful explore the resulting root is the first
\* element of the Collection.
C18_TouchedRootIsFirst ==
  [][\A p \in Pipes :
       Ends(p, "complete") => state'.collection[1] = state'.history[1]]_vars

\* The Collection holds at most one entry per id.
distinctCollectionIds ==
  \A i, j \in 1..Len(state.collection) :
    state.collection[i].id = state.collection[j].id => i = j

\* C19: the Collection holds at most one entry per id in every state, and an
\* explore that completes for a root whose id is already in the Collection
\* replaces that entry: the length and every other entry stay.
C19_CollectionDedupedById ==
  /\ []distinctCollectionIds
  /\ [][\A p \in Pipes :
          (Ends(p, "complete") /\ state'.history[1].id \in collectionIds) =>
            /\ Len(state'.collection) = Len(state.collection)
            /\ \A i \in 1..Len(state.collection) :
                 state'.collection[i] =
                   IF state.collection[i].id = state'.history[1].id
                   THEN state'.history[1] ELSE state.collection[i]]_vars

\* C19 witness: a root of a Collection of two was replaced by its version with
\* a child compiled in this session.
C19_Witness ==
  /\ Len(state.collection) = 2
  /\ \E i \in 1..2 :
       \E c \in childrenOf(state.collection[i]) : c.id >= FirstClock
  /\ noPipeline

\* The ids of the Items of the tree under root.
descendantIds(root) == {n.id : n \in nodesOf(root)}

\* C20: for every root that stays in the Collection, the set of the ids of its
\* Items never shrinks.
C20_DescendantsNeverShrink ==
  [][\A i \in 1..Len(state.collection), j \in 1..Len(state'.collection) :
       state.collection[i].id = state'.collection[j].id =>
         descendantIds(state.collection[i]) \subseteq descendantIds(state'.collection[j])]_vars

\* ------------------------------------------------- image synthesis and scan

\* The analysis prompt asks for "5-7 distinct major internal components".
MinParts == 5
MaxParts == 7

\* The names of the parts the analysis service may list, in its order.
PartNames == << <<"B">>, <<"c">>, <<"d">>, <<"e">>, <<"f">>, <<"g">>, <<"h">> >>

\* structure.partNames: the first 5, 6 or 7 of them.
AnalysedPartNameLists == { SubSeq(PartNames, 1, n) : n \in MinParts..MaxParts }

\* The session with its image modes: one exploration at a time from the
\* rendering surface, in fast or in full mode, where each generateImage call
\* and the scan succeed or fail on their own.
NextVisual ==
  \/ noPipeline /\ ExploreFromUI
  \/ SetGenerationMode
  \/ \E p \in Pipes : AnalyzeReturnWith(p, {}, MaxItems, AnalysedPartNameLists, {1})
  \/ \E p \in Pipes : FirstImageReturn(p)
  \/ \E p \in Pipes : DetailImagesReturn(p)
  \/ \E p \in Pipes : DetectReturn(p, ScanCoords)
  \/ SaveReturn
  \/ Reset

SpecVisual == Init /\ [][NextVisual]_vars

\* C21: in fast mode, every explore that ends in `complete` yields an Item whose
\* image bundle contains an exploded image, whatever the image call returned.
C21_FastModeYieldsExploded ==
  [][\A p \in Pipes :
       (Ends(p, "complete") /\ pipes[p].generationMode = "fast") =>
         state'.currentItem.images.exploded # ""]_vars

\* The compiled Item of the pipeline that ends in this step is committed: it is
\* the current Item and the end of the history, and its root is in the
\* Collection and handed to the store.
Committed(p) ==
  /\ state'.currentItem.id = pipes[p].id
  /\ state'.history[Len(state'.history)] = state'.currentItem
  /\ state'.history[1].id \in {state'.collection[i].id : i \in 1..Len(state'.collection)}
  /\ state'.history[1] \in saves'

\* The assembled call of full-mode pipeline p resolves without an image in this step.
AssembledFails(p) ==
  /\ pipes[p].pc = "rendering"
  /\ pipes[p].generationMode = "full"
  /\ pipes'[p].pc \notin {"rendering", "details"}

\* C22: in full mode, when the assembled generation fails, the cutaway and
\* exploded generations are not attempted (they are awaited only with an
\* assembled image in hand, and the pipeline ends from where the assembled call
\* left it), the compiled Item has no image at all, never a partial set, and the
\* pipeline ends in `complete` with the Item committed.
C22_FailedAssembledYieldsNoImages ==
  [][\A p \in Pipes :
       /\ AssembledFails(p) =>
            /\ Ends(p, "complete")
            /\ state'.currentItem.images = NoImages
            /\ Committed(p)
       /\ (pipes[p].pc # "details" /\ pipes'[p].pc = "details") =>
            /\ pipes[p].pc = "rendering"
            /\ pipes'[p].images.assembled # ""
       /\ (Ends(p, "complete") /\ pipes[p].generationMode = "full") =>
            \/ state'.currentItem.images = NoImages /\ pipes[p].pc = "rendering"
            \/ /\ state'.currentItem.images.assembled # ""
               /\ state'.currentItem.images.cutaway # ""
               /\ state'.currentItem.images.exploded # ""]_vars

\* C22 witness: with the session in full mode, an Item compiled in this session
\* is committed without any image.
C22_Witness ==
  /\ state.generationMode = "full"
  /\ state.status.stage = "complete"
  /\ state.currentItem.id >= FirstClock
  /\ state.currentItem.images = NoImages
  /\ state.currentItem.id \in collectionIds

\* The Items of the forest: those of the Collection's roots, of the active
\* root, and the current Item.
forestItems ==
  UNION {nodesOf(r) : r \in sessionRoots \cup {state.currentItem}}

\* C23: in full mode, when the assembled generation succeeds the bundle holds
\* all three views, each of cutaway and exploded being its own image or, when
\* its generation failed, the assembled image; and every Item that has an image
\* bundle has an exploded image.
C23_FailedViewsReuseAssembled ==
  /\ [](\A item \in forestItems : item.images # NoImages => item.images.exploded # "")
  /\ [](\A okCutaway \in BOOLEAN, okExploded \in BOOLEAN :
          LET images == generateVisualAssets("full", TRUE, okCutaway, okExploded)
          IN  /\ images.assembled = ImgAssembled
              /\ images.cutaway = (IF okCutaway THEN ImgCutaway ELSE images.assembled)
              /\ images.exploded = (IF okExploded THEN ImgExploded ELSE images.assembled))
  /\ [][\A p \in Pipes :
          (pipes[p].pc = "details" /\ pipes'[p].pc # "details") =>
            /\ pipes'[p].pc = "scanning"
            /\ pipes'[p].images.assembled = ImgAssembled
            /\ pipes'[p].images.cutaway \in {ImgCutaway, ImgAssembled}
            /\ pipes'[p].images.exploded \in {ImgExploded, ImgAssembled}]_vars

\* C23 witness: an Item compiled in this session whose cutaway and exploded
\* views are both the assembled image.
C23_Witness ==
  /\ state.status.stage = "complete"
  /\ state.currentItem.id >= FirstClock
  /\ state.currentItem.images =
       [assembled |-> ImgAssembled, cutaway |-> ImgAssembled, exploded |-> ImgAssembled]

\* C24: whenever the scan fails or no exploded image exists, the compiled
\* Item's parts are the synthetic placement, one Part per analysed part name in
\* order; an Item whose analysis returned part names never has an empty parts list.
C24_FallbackPartsWheneverScanFails ==
  [][\A p \in Pipes :
       (Ends(p, "complete") /\ pipes[p].partNames # <<>>) =>
         /\ Len(state'.currentItem.parts) = Len(pipes[p].partNames)
         /\ \A i \in 1..Len(pipes[p].partNames) :
              state'.currentItem.parts[i].name = pipes[p].partNames[i]
         /\ (pipes[p].pc # "scanning") =>
              state'.currentItem.parts = fallbackParts(pipes[p].partNames)]_vars

\* C25: every Part of every compiled Item has x and y within 0..100.
C25_CoordinatesWithinRange ==
  \A item \in forestItems :
    \A i \in 1..Len(item.parts) :
      item.parts[i].x \in 0..100 /\ item.parts[i].y \in 0..100

\* The stages of GenerationStatus a pipeline passes through, in their order.
StageOrder ==
  <<"analyzing", "rendering_assembled", "rendering_details", "scanning", "complete">>

follows(before, after) ==
  \E i \in 1..(Len(StageOrder) - 1) : StageOrder[i] = before /\ StageOrder[i + 1] = after

\* C26: during an explore that ends in `complete`, the stages emitted are
\* analyzing, rendering_assembled, rendering_details, scanning, complete, in
\* that order: each stage a pipeline emits over its own earlier stage is the
\* next one of the order, none skipped.
C26_StagesInOrder ==
  [][\A p \in Pipes :
       (/\ inProgress(p)
        /\ pipes'[p] # pipes[p]
        /\ state.status.isGenerating
        /\ state'.status.stage \notin {"error", state.status.stage}) =>
         follows(state.status.stage, state'.status.stage)]_vars

\* C27: once the stage is `error` it stays `error`, and no pipeline starts,
\* until reset or reconfigure is invoked.
C27_ErrorUntilReset ==
  [][state.status.stage = "error" =>
       \/ /\ state'.status.stage = "error"
          /\ ~state'.status.isGenerating
          /\ \A p \in Pipes : pipes[p].pc = "idle" => pipes'[p].pc = "idle"
       \/ state' = reduceReset(state)
       \/ state' = reduceReconfigure(state)]_vars

\* ------------------------------------------------------ the context builder

\* The longest lineage the context builder is exercised on, in Items.
MaxPath == 3

\* The names of the Items of a lineage: a root's name, names that contain it
\* in another case, and a name explore gave a child.
LineageNames ==
  { <<"a">>, <<"A", "B">>, <<"a", "B", "c">>, <<"B">> \o From \o <<"a">> }

\* The queries: one that contains no ancestor's name, one that contains some.
LineageQueries == { <<"c">>, <<"a", "B">> }

RECURSIVE chainFrom(_, _)
\* The Item at depth i - 1 of the chain of Items with the given names, where
\* each Item but the last has the next one as its only child.
chainFrom(names, i) ==
  [NullItem EXCEPT !.id = i, !.rootId = 1, !.parentId = i - 1, !.name = names[i],
                   !.depth = i - 1, !.timestamp = i,
                   !.children = IF i < Len(names) THEN <<chainFrom(names, i + 1)>>
                                ELSE <<>>]

\* A session that shows an Item of a chain, with the path to it as its history.
InitLineage ==
  /\ \E n \in 1..MaxPath :
       \E names \in [1..n -> LineageNames], k \in 1..n :
         LET root == chainFrom(names, 1)
             path == findPathToNode(root, k)
         IN  state = [initialState EXCEPT !.currentItem = path[k], !.history = path,
                                          !.collection = <<root>>]
  /\ pipes = [p \in Pipes |-> IdlePipe]
  /\ clock = FirstClock
  /\ db = << >>
  /\ saves = {}
  /\ deletes = NoDelete
  /\ imp = IdleImport

\* A call of explore under any Item of the chain, under an id the tree does
\* not hold, or without a parent.
ExploreLineage ==
  \E query \in LineageQueries, parentId \in (1..(MaxPath + 1)) \cup {NoId} :
    explore(query, parentId)

\* The session with the analysis service down: every request builds its context
\* query, waits for the analysis and fails.
NextLineage ==
  \/ ExploreLineage
  \/ \E p \in Pipes : AnalyzeReturnWith(p, {}, 0, PartNameLists, {1})
  \/ NavigateTo

SpecLineage == InitLineage /\ [][NextLineage]_vars

\* Pipeline p starts in this step.
Starts(p) == pipes[p].pc = "idle" /\ pipes'[p].pc = "analyzing"

\* The names along the path from the active root to parentId; empty without a
\* parent, without an active root, or when the tree does not hold parentId.
lineageOf(parentId) ==
  IF parentId # NoId /\ Len(state.history) > 0
  THEN LET path == findPathToNode(state.history[1], parentId)
       IN  [i \in 1..Len(path) |-> path[i].name]
  ELSE <<>>

nonBlank(strs) == SelectSeq(strs, LAMBDA str : str # <<>>)

\* The query as the final element of the lineage: the ancestors left after
\* the deduplication of names followed by query, and the context query they give.
withQueryAppended(names, query) ==
  LET lineage == Append(names, query)
      clean == dedupe(lineage, Len(lineage))
      ancestors == nonBlank(SubSeq(clean, 1, Len(names)))
  IN  IF ancestors = <<>> THEN query ELSE query \o From \o join(ancestors, Space)

\* C28: the context query treats the query as the final element of the
\* lineage: an ancestor whose name the query contains (in any case) is blanked,
\* and with every ancestor blanked the context query is the bare query.
C28_QueryEndsLineage ==
  [][\A p \in Pipes :
       Starts(p) =>
         pipes'[p].contextQuery =
           withQueryAppended(lineageOf(pipes'[p].parentId), pipes'[p].query)]_vars

\* The ancestor names after the scan from the end: the last stays, and each
\* other one is blanked when the element after it, as the scan has left it,
\* contains it in any case.
blankedFromEnd(names) ==
  LET n == Len(names)
      clean[k \in 1..n] ==
        IF k = n THEN names[n]
        ELSE IF includes(toLowerCase(clean[k + 1]), toLowerCase(names[k]))
             THEN <<>> ELSE names[k]
  IN  [k \in 1..n |-> clean[k]]

\* C29: for an empty path the context query is the query; for a non-empty path
\* it is the query, " from ", and the ancestor names left after the scan from
\* the end, joined by single spaces.  Every request gets exactly this string.
C29_ContextQueryFormat ==
  [][\A p \in Pipes :
       Starts(p) =>
         LET names == lineageOf(pipes'[p].parentId)
             query == pipes'[p].query
         IN  pipes'[p].contextQuery =
               (IF names = <<>> THEN query
                ELSE query \o From \o join(nonBlank(blankedFromEnd(names)), Space))]_vars

\* C29 witness: a request under the third Item of a lineage whose second name
\* is blanked by the third, and whose first name stays although the second
\* contained it.
C29_Witness ==
  \E p \in Pipes :
    /\ pipes[p].pc = "analyzing"
    /\ pipes[p].parentId = 3
    /\ pipes[p].contextQuery = <<"c">> \o From \o <<"a", " ", "a", "B", "c">>

\* ------------------------------------------------------- ids from the clock

\* Another pipeline awaits its analysis while p does.
analysedTogether(p) ==
  \E q \in Pipes \ {p} : pipes[q].pc = "analyzing"

\* Explorations that overlap, under a clock of millisecond resolution: of two
\* analyses awaited together, the one that resolves first may leave the clock
\* where it is, so that the other reads the same Date.now().  Image generation
\* fails, and the store has not yet answered the writes.
NextClock ==
  \/ ExploreFromUI
  \/ \E p \in Pipes : AnalyzeReturnWith(p, {}, MaxItems, PartNameLists, {1})
  \/ \E p \in Pipes :
       analysedTogether(p) /\ AnalyzeReturnWith(p, {}, MaxItems, PartNameLists, {0})
  \/ \E p \in Pipes : VisualAssetsReturn(p, {<<FALSE, FALSE, FALSE>>})
  \/ LoadExploration

SpecClock == Init /\ [][NextClock]_vars

\* C30: no two Items of the forest share an id: the Items of one tree have
\* pairwise different ids, and trees of different roots have no id in common.
C30_IdsUniqueInForest ==
  /\ \A root \in sessionRoots : size(root) = Cardinality(descendantIds(root))
  /\ \A r1 \in sessionRoots, r2 \in sessionRoots :
       r1.id # r2.id => descendantIds(r1) \cap descendantIds(r2) = {}

\* ------------------------------------------------ the detail views in full mode

\* The session of SpecVisual with the two detail calls of full mode returning
\* one by one, in either order.
NextDetails ==
  \/ noPipeline /\ ExploreFromUI
  \/ SetGenerationMode
  \/ \E p \in Pipes : AnalyzeReturn(p, {})
  \/ \E p \in Pipes : FirstImageReturn(p)
  \/ \E p \in Pipes, view \in {"cutaway", "exploded"} : DetailImageReturn(p, view)
  \/ \E p \in Pipes : DetectReturn(p, ScanCoords)
  \/ SaveReturn
  \/ Reset

SpecDetails == Init /\ [][NextDetails]_vars

\* C31: in full mode the cutaway and exploded generations are issued only
\* after an assembled image has come back, together, both with that image as
\* their reference; and the scan or the compilation begins only with the
\* return of the second of them, whichever it is.
C31_DetailViewsJoinBeforeScan ==
  /\ [](\A p \in Pipes :
          /\ pipes[p].pending # {} =>
               /\ pipes[p].pc = "details"
               /\ pipes[p].generationMode = "full"
               /\ pipes[p].reference = ImgAssembled
               /\ pipes[p].images.assembled = pipes[p].reference
          /\ pipes[p].pc = "scanning" => pipes[p].pending = {})
  /\ [][\A p \in Pipes :
          /\ (pipes[p].pc # "details" /\ pipes'[p].pc = "details") =>
               /\ pipes[p].pc = "rendering"
               /\ pipes'[p].pending = {"cutaway", "exploded"}
          /\ (pipes[p].pc = "details" /\ pipes'[p].pc # "details") =>
               /\ Cardinality(pipes[p].pending) = 1
               /\ pipes'[p].pc = "scanning"
               /\ state'.status.stage = "scanning"
          /\ (pipes[p].pc = "details" /\ pipes'[p].pc = "details") =>
               pipes'[p].pending \subseteq pipes[p].pending]_vars

\* C31 witness: the exploded view has come back first and the scan has not
\* begun: the pipeline still waits for the cutaway view.
C31_Witness ==
  \E p \in Pipes :
    /\ pipes[p].pc = "details"
    /\ pipes[p].pending = {"cutaway"}
    /\ pipes[p].images.exploded = ImgExploded
    /\ state.status.stage = "rendering_assembled"

\* C32: for an image-origin request the identification comes first; the
\* analysis follows only for the name that was identified, and when the
\* identification fails the status becomes `error`, the request ends there
\* without analysis, synthesis or scan, and currentItem, history, the
\* Collection and storage stay.
C32_FailedIdentificationEndsRequest ==
  [][\A p \in Pipes :
       /\ (pipes[p].pc # "identifying" /\ pipes'[p].pc = "identifying") =>
            pipes[p].pc = "idle"
       /\ (pipes[p].pc = "identifying" /\ pipes'[p].pc # "identifying") =>
            \/ /\ pipes'[p].pc = "analyzing"
               /\ pipes'[p].query = <<"c">>
            \/ /\ pipes'[p] = IdlePipe
               /\ state' = [state EXCEPT !.status = Status(FALSE, "error", IdentifyMessage)]
               /\ db' = db
               /\ saves' = saves
               /\ clock' = clock]_vars

\* C32 witness: an identification failed while a session was open; the session
\* still shows its Item.
C32_Witness ==
  /\ state.status = Status(FALSE, "error", IdentifyMessage)
  /\ state.currentItem # NullItem
  /\ Len(state.history) > 0
  /\ \A p \in Pipes : pipes[p].pc = "idle"

\* ------------------------------------------------------------- termination

\* The next step of pipeline p: the return of the call it is suspended at.
PipeReturn(p) ==
  \/ IdentifyReturn(p, {<<"c">>})
  \/ AnalyzeReturn(p, {})
  \/ VisualAssetsReturn(p, AllOrNothing)
  \/ DetectReturn(p, {})

\* The session of Spec where every call to the AI capability eventually
\* returns or fails.
SpecFair == Spec /\ \A p \in Pipes : WF_vars(PipeReturn(p))

\* C33: every request that sets isGenerating eventually sets it back to false
\* with the stage `complete` or `error`: each pipeline ends, it ends with one of
\* these stages and not generating, and an identification that succeeded is
\* followed by the analysis.
C33_EveryRequestEnds ==
  /\ \A p \in Pipes : inProgress(p) ~> ~inProgress(p)
  /\ state.status.isGenerating ~> ~state.status.isGenerating
  /\ [][\A p \in Pipes :
          /\ (inProgress(p) /\ pipes'[p].pc = "idle") =>
               /\ ~state'.status.isGenerating
               /\ state'.status.stage \in {"complete", "error"}
          /\ (pipes[p].pc = "identifying" /\ pipes'[p].pc # "identifying"
                /\ state'.status.stage # "error") =>
               /\ pipes'[p].pc = "analyzing"
               /\ state'.status.isGenerating]_vars

\* C33 witness: a request for the name an identification gives has gone to
\* its end: its Item is compiled, the status is complete and not generating.
C33_Witness ==
  /\ state.status = Status(FALSE, "complete", "")
  /\ state.currentItem.id >= FirstClock
  /\ state.currentItem.name = <<"c">>
  /\ state.currentItem.parentId = NoId
  /\ \A p \in Pipes : pipes[p].pc = "idle"

\* C34: whenever a session is active, the Collection holds exactly one entry
\* with the id of history[0], and that entry is the tree of history[0].
C34_CollectionHoldsActiveRoot ==
  Len(state.history) > 0 =>
    /\ Cardinality({i \in 1..Len(state.collection) :
                      state.collection[i].id = state.history[1].id}) = 1
    /\ \A i \in 1..Len(state.collection) :
         state.collection[i].id = state.history[1].id =>
           state.collection[i] = state.history[1]

\* The names of the children of item are pairwise different.
distinctChildNames(item) ==
  \A i, j \in 1..Len(item.children) :
    item.children[i].name = item.children[j].name => i = j

\* C35: exploring the same part twice under the same parent creates at most
\* one child: a request made while viewing the parent starts no pipeline when
\* the parent has a child of the name the request would give, or any child
\* that matches the query; it goes to that child instead.  No Item has two
\* children of one name.
C35_SecondExploreIsMemoryHit ==
  /\ [](\A item \in forestItems : distinctChildNames(item))
  /\ [][\A p \in Pipes :
          (/\ Starts(p)
           /\ pipes'[p].parentId # NoId
           /\ pipes'[p].parentId = state.currentItem.id) =>
            \A c \in childrenOf(state.currentItem) :
              /\ c.name # pipes'[p].contextQuery
              /\ ~nameMatches(c.name, pipes'[p].query)]_vars

\* C35 witness: the session has come back to a child compiled in this session
\* by way of its parent: the status is idle, as loadExploration left it.
C35_Witness ==
  /\ state.status.stage = "idle"
  /\ state.currentItem.id >= FirstClock
  /\ state.currentItem.parentId # NoId
  /\ Len(state.history) >= 2
  /\ state.currentItem \in childrenOf(state.history[Len(state.history) - 1])

\* ------------------------------------------------------ the writes of explore

\* Explorations one after the other, each starting while the writes of the
\* earlier ones may still be outstanding; every write succeeds.
NextWrites ==
  \/ noPipeline /\ ExploreFromUI
  \/ \E p \in Pipes : AnalyzeReturnUpTo(p, {}, MaxItems + 1)
  \/ \E p \in Pipes : VisualAssetsReturn(p, {<<FALSE, FALSE, FALSE>>})
  \/ SaveReturnStored
  \/ LoadExploration
  \/ NavigateTo
  \/ Reset

SpecWrites == Init /\ [][NextWrites]_vars

DeleteFails ==
  /\ DeleteSettles
  /\ deletes.id \in DOMAIN db
  /\ db' = db

\* C37: when the storage delete of removeExploration(id) fails, the failure is
\* absorbed: the Collection (the root included), currentItem, history and
\* status are what they were, also when the root is the active one.
C37_FailedDeleteChangesNothing ==
  [][DeleteFails => state' = state]_vars

\* C37 witness: removeExploration awaits the delete of a root that storage and
\* the Collection hold and that is the active root, so that the delete can
\* fail with a session a reset would clear.
C37_Witness ==
  /\ deletes.pc = "deleting"
  /\ deletes.active
  /\ deletedIsActive
  /\ deletes.id \in DOMAIN db
  /\ deletes.id \in collectionIds
  /\ state.currentItem # NullItem

\* ------------------------------------------------------ the frame of navigateTo

\* The state after navigateTo(id) is called in the current state.
navigated(id) == reducer(state, [type |-> "NAVIGATE_TO", payload |-> id])

\* path leads from its first Item to its last through children.
IsPathOfChildren(path) ==
  \A i \in 1..(Len(path) - 1) : path[i + 1] \in childrenOf(path[i])

\* The ids of the Items of the active root's tree; none without a session.
activeTreeIds ==
  IF Len(state.history) = 0 THEN {}
  ELSE {n.id : n \in nodesOf(state.history[1])}

\* C38: navigateTo(id) changes only currentItem and history.  For an id of the
\* active root's tree, history becomes a path of children from the unchanged
\* history[0] to an Item with that id, and currentItem that Item; without a
\* session, or for any other id (an id of another root of the Collection
\* included), the state is unchanged.  The Collection, the status, the mode
\* and the options are never changed.
C38_NavigateToFrame ==
  \A id \in Ids :
    LET after == navigated(id)
    IN  /\ after.collection = state.collection
        /\ after.status = state.status
        /\ after.generationMode = state.generationMode
        /\ after.isConfigured = state.isConfigured
        /\ after.isOffline = state.isOffline
        /\ id \notin activeTreeIds => after = state
        /\ id \in activeTreeIds =>
             /\ after.history[1] = state.history[1]
             /\ IsPathOfChildren(after.history)
             /\ after.history[Len(after.history)].id = id
             /\ after.currentItem = after.history[Len(after.history)]

\* C38 witness: a session opened from the Collection has navigated to a child
\* of its root (the status is still idle, which no exploration leaves behind),
\* and the Collection holds another root, whose id is not in the active tree.
C38_Witness ==
  /\ Len(state.history) = 2
  /\ state.status = IdleStatus
  /\ state.currentItem = state.history[2]
  /\ \E id \in collectionIds : id \notin activeTreeIds

====
